---- MODULE Spec2Model ----
(***************************************************************************)
(* Supply-chain simulation core of maro: one supplier facility A with a    *)
(* storage, a distribution queue and one VehicleUnit, and one retailer     *)
(* facility B with a storage and one ConsumerUnit per SKU.  The vehicle    *)
(* and the consumer are translated from                                    *)
(*   src/maro/simulator/scenarios/supply_chain/units/vehicle.py            *)
(*   src/maro/simulator/scenarios/supply_chain/units/consumer.py           *)
(* StorageUnit, DistributionUnit and the tick driver are not part of the   *)
(* source slice and follow spec.md (sections 2, 4.1 and 5).                *)
(***************************************************************************)
EXTENDS Integers, Sequences, FiniteSets, TLC

\* ------------------------------------------------------------------ bounds
\* Largest quantity an action may order.
MaxQty == 2
\* Largest lead time (vlt) an action may ask for.
MaxVlt == 2
\* Cap on one open-order ledger entry (orders beyond it are not offered).
MaxOpen == 2
\* Cap on the number of orders waiting in the distribution queue.
MaxQueue == 1
\* Largest storage capacity, SKU count and production rate of the manufacture runs.
MaxCapacity == 4
MaxSkuNum == 3
MaxRate == 3
\* Largest number of training episodes and longest evaluation list of the learner runs.
MaxEpisodes == 3
MaxScheduleLen == 2
\* Configured patience of the vehicle (config "patient").
MaxPatient == 3
\* Length of the pending-order window (settings "pending_order_len").
PendingOrderLen == 2
\* Capacity of the two storages.
CapA == 3
CapB == 3
\* Configured unit transport cost (config "unit_transport_cost", default 1).
UnitTransportCost == 1
\* Price of one unit of a SKU, used for the cost place_order returns.
SkuPrice == 1

\* ------------------------------------------------------------- the world
\* Facility ids are 1-based; 0 is the invalid id (consumer.py:100).
FacA == 1
FacB == 2
\* SKUs carried by both facilities; B has one consumer per SKU.
Products == {1, 2}
\* None for an object reference held as an id.
None == 0

\* A route is None or a sequence of waypoints.
NonePath == [none |-> TRUE, pts |-> << >>]
Route(pts) == [none |-> FALSE, pts |-> pts]
\* What world.find_path may return for the pair (A, B): a route of three
\* waypoints, an empty route, or None.
FoundRoute == Route(<<1, 2, 3>>)
EmptyRoute == Route(<< >>)

\* A consumer action is None or a record of the four fields the step reads.
NoAction == [set |-> FALSE, source_id |-> 0, product_id |-> 0, quantity |-> 0, vlt |-> 0]
Action(s, p, q, v) == [set |-> TRUE, source_id |-> s, product_id |-> p, quantity |-> q, vlt |-> v]
\* The actions offered to the consumer of SKU c: every order for its own SKU,
\* one order for each other SKU, and one action for each way of being invalid.
ActionChoices(c) ==
    { Action(FacA, c, q, v) : q \in 1..MaxQty, v \in 0..MaxVlt }
    \cup { Action(FacA, p, 1, 1) : p \in Products \ {c} }
    \cup { Action(0, c, 1, 1), Action(FacA, 0, 1, 1), Action(FacA, c, 0, 1) }

VARIABLES
    veh,        \* the VehicleUnit of facility A
    storA,      \* product quantities in A's storage
    storB,      \* product quantities in B's storage
    queue,      \* A's distribution order queue
    open_orders,\* per consumer: [source id -> [product id -> quantity]]
    cons,       \* per consumer: the other ConsumerUnit fields
    action,     \* per consumer: the action set for this tick
    stepped,    \* units whose step ran in the current tick
    phase,      \* "step", "flushed" (flush_states done) or "crashed"
    job,        \* history of the vehicle's current job (bookkeeping only)
    facility_skus, \* ProductUnit.generate: SKU id -> SKU type of a facility
    unit_config,   \* ProductUnit.generate: the child names the config holds
    products,      \* ProductUnit.generate: its result, once it has run
    calls,         \* the last lifecycle call on a ProductUnit and what it invoked
    mfg,           \* a SimpleManufactureUnit and the storage figures it reads
    learner        \* a LocalLearner and the episodes it has evaluated after

\* The units of the two facilities.
unitVars == <<veh, storA, storB, queue, open_orders, cons, action, stepped, phase, job>>
\* The product units of one facility, as ProductUnit.generate builds them.
productVars == <<facility_skus, unit_config, products, calls>>
\* One SimpleManufactureUnit.
manufactureVars == <<mfg>>
\* One LocalLearner.
learnerVars == <<learner>>
\* What the units of the two facilities leave alone.
otherVars == <<productVars, manufactureVars, learnerVars>>
vars == <<unitVars, productVars, manufactureVars, learnerVars>>

Min(a, b) == IF a < b THEN a ELSE b
Max(a, b) == IF a > b THEN a ELSE b

\* ---------------------------------------------------------------- storage
\* Sum of all product quantities of a storage.
RECURSIVE SumOver(_, _)
SumOver(f, S) == IF S = {} THEN 0
                 ELSE LET x == CHOOSE y \in S : TRUE IN f[x] + SumOver(f, S \ {x})
Used(st) == SumOver(st, Products)

\* try_take({pid: qty}): all or nothing.
TryTakeOk(st, pid, qty) == st[pid] >= qty
TryTakeProducts(st, pid, qty) ==
    IF TryTakeOk(st, pid, qty) THEN [st EXCEPT ![pid] = @ - qty] ELSE st

\* try_add({pid: qty}, all_or_nothing): the amount added for pid.
TryAddAmount(st, cap, pid, qty, all_or_nothing) ==
    LET free == cap - Used(st) IN
    IF all_or_nothing /\ free < qty THEN 0 ELSE Min(free, qty)
TryAddProducts(st, cap, pid, qty, all_or_nothing) ==
    [st EXCEPT ![pid] = @ + TryAddAmount(st, cap, pid, qty, all_or_nothing)]
\* The returned map: one entry per requested product unless the whole batch
\* was refused.
TryAddReturned(st, cap, pid, qty, all_or_nothing) ==
    IF all_or_nothing /\ cap - Used(st) < qty THEN << >>
    ELSE [p \in {pid} |-> TryAddAmount(st, cap, pid, qty, all_or_nothing)]

\* --------------------------------------------------------------- consumer
\* The consumer of SKU c at facility B is B.products[c].consumer.
Consumers == Products
\* The consumers the agent addresses with actions.
Controlled == {1}

\* update_open_orders overwriting the entry with a new order's quantity.
update_open_orders_overwrite(oo, c, source_id, product_id, qty_delta) ==
    IF qty_delta > 0
    THEN [oo EXCEPT ![c][source_id][product_id] = qty_delta]
    ELSE [oo EXCEPT ![c][source_id][product_id] = @ + qty_delta]

\* ConsumerUnit.update_open_orders: both branches add the signed delta.
update_open_orders(oo, c, source_id, product_id, qty_delta) ==
    IF qty_delta > 0
    THEN [oo EXCEPT ![c][source_id][product_id] = @ + qty_delta]
    ELSE [oo EXCEPT ![c][source_id][product_id] = @ + qty_delta]

\* on_order_reception closing only the received quantity of the order.
on_order_reception_received(w, c, source_id, product_id, quantity, original_quantity) ==
    [w EXCEPT !.cons[c].received = @ + quantity,
              !.open_orders = update_open_orders(@, c, source_id, product_id, -quantity)]

\* ConsumerUnit.on_order_reception on a world record w.
on_order_reception(w, c, source_id, product_id, quantity, original_quantity) ==
    [w EXCEPT !.cons[c].received = @ + quantity,
              !.open_orders = update_open_orders(@, c, source_id, product_id, -original_quantity)]

\* ConsumerUnit._update_pending_order: shift(window, -1, cval=0).
update_pending_order(window) ==
    [i \in 1..Len(window) |-> IF i < Len(window) THEN window[i + 1] ELSE 0]

\* Python's window[k] for a 0-based index k that may be negative.
PyIndex(window, k) == IF k < 0 THEN Len(window) + k + 1 ELSE k + 1

\* The validity test of ConsumerUnit.step letting a quantity of 0 through.
ActionIgnored_zero_quantity(a) ==
    \/ ~a.set
    \/ a.quantity < 0
    \/ a.product_id <= 0
    \/ a.source_id = 0

\* The test that makes ConsumerUnit.step return early.
ActionIgnored(a) ==
    \/ ~a.set
    \/ a.quantity <= 0
    \/ a.product_id <= 0
    \/ a.source_id = 0

\* DistributionUnit.place_order: queue the order, return its price.
place_order_cost(order) == SkuPrice * order.quantity

\* ---------------------------------------------------------------- vehicle
\* VehicleUnit._reset_internal_states.
reset_internal_states(v) ==
    [v EXCEPT !.destination = None, !.path = NonePath, !.payload = 0,
              !.product_id = 0, !.steps = 0, !.location = 0,
              !.requested_quantity = 0, !.velocity = 0, !.patient = MaxPatient]

\* VehicleUnit._reset_data_model.
reset_data_model(v) == [v EXCEPT !.dm_payload = 0]

\* VehicleUnit.is_enroute.
is_enroute(v) == v.destination # None

\* VehicleUnit.schedule: the fields are written in source order; a None path
\* raises after destination, product and quantity have been stored.
schedule(v, destination, product_id, quantity, vlt, path) ==
    LET v1 == [v EXCEPT !.product_id = product_id, !.destination = destination,
                        !.requested_quantity = quantity, !.path = path]
    IN  IF path.none
        THEN [raised |-> TRUE, veh |-> v1]
        ELSE [raised |-> FALSE,
              veh |-> [v1 EXCEPT !.steps = vlt, !.location = 0, !.velocity = vlt,
                                 !.patient = MaxPatient]]

\* VehicleUnit.try_load on a world record w (the vehicle's facility is A).
try_load_ok(w, quantity) == TryTakeOk(w.storA, w.veh.product_id, quantity)
\* try_load setting the payload without taking the stock out of the storage.
try_load_no_take(w, quantity) ==
    IF try_load_ok(w, quantity)
    THEN [w EXCEPT !.veh.payload = quantity, !.veh.dm_payload = quantity]
    ELSE w

try_load(w, quantity) ==
    IF try_load_ok(w, quantity)
    THEN [w EXCEPT !.storA = TryTakeProducts(@, w.veh.product_id, quantity),
                   !.veh.payload = quantity, !.veh.dm_payload = quantity]
    ELSE w

\* VehicleUnit.try_unload on a world record w (the destination is B).
try_unload(w) ==
    LET pid == w.veh.product_id
        unloaded == TryAddReturned(w.storB, CapB, pid, w.veh.payload, FALSE)
        w1 == [w EXCEPT !.storB = TryAddProducts(@, CapB, pid, w.veh.payload, FALSE)]
    IN  IF Cardinality(DOMAIN unloaded) > 0
        THEN LET unloaded_units == unloaded[pid]
                 w2 == on_order_reception(w1, pid, FacA, pid, unloaded_units, w.veh.payload)
             IN  [w2 EXCEPT !.veh.payload = @ - unloaded_units,
                            !.veh.dm_payload = w.veh.payload - unloaded_units]
        ELSE w1

\* The "moving to destination" block of VehicleUnit.step.
move(v) ==
    IF v.payload > 0
    THEN LET v1 == [v EXCEPT !.location = @ + v.velocity, !.steps = @ - 1]
         IN  IF v1.location >= Len(v1.path.pts)
             THEN [v1 EXCEPT !.location = Len(v1.path.pts) - 1]
             ELSE v1
    ELSE v

\* The last statement of VehicleUnit.step.
record_cost(v) == [v EXCEPT !.cost = v.payload * UnitTransportCost]

\* The failed-load branch giving up as soon as the patience reaches 0.
failed_load_early(w) ==
    LET w1 == [w EXCEPT !.veh.patient = @ - 1]
    IN  IF w1.veh.patient <= 0
        THEN [w1 EXCEPT !.open_orders =
                            update_open_orders(@, w.veh.product_id, FacA, w.veh.product_id,
                                               -w.veh.requested_quantity),
                        !.veh = reset_data_model(reset_internal_states(@))]
        ELSE w1

\* The failed-load branch of VehicleUnit.step: patience, then abandonment.
failed_load(w) ==
    LET w1 == [w EXCEPT !.veh.patient = @ - 1]
    IN  IF w1.veh.patient < 0
        THEN [w1 EXCEPT
                !.open_orders = update_open_orders(@, w.veh.product_id, FacA,
                                    w.veh.product_id, -w.veh.requested_quantity),
                !.veh = reset_data_model(reset_internal_states(@))]
        ELSE w1

\* The arrived branch keeping the job until the whole payload is unloaded.
arrived_until_unloaded(w) ==
    LET w1 == IF w.veh.payload > 0 THEN try_unload(w) ELSE w
    IN  IF w1.veh.payload = 0
        THEN [w1 EXCEPT !.veh = reset_data_model(reset_internal_states(@))]
        ELSE w1

\* The arrived branch of VehicleUnit.step: unload once, then clear the job.
arrived(w) ==
    LET w1 == IF w.veh.payload > 0 THEN try_unload(w) ELSE w
    IN  [w1 EXCEPT !.veh = reset_data_model(reset_internal_states(@))]

\* VehicleUnit.step on a world record w.
vehicle_step(w) ==
    IF w.veh.steps > 0
    THEN IF w.veh.location = 0 /\ w.veh.payload = 0
         THEN IF try_load_ok(w, w.veh.requested_quantity)
              THEN try_load(w, w.veh.requested_quantity)
              ELSE LET w1 == failed_load(w)
                   IN  [w1 EXCEPT !.veh = record_cost(move(@))]
         ELSE [w EXCEPT !.veh = record_cost(move(@))]
    ELSE LET w1 == arrived(w)
         IN  [w1 EXCEPT !.veh = record_cost(@)]

\* ------------------------------------------------------------------ state
\* The state-carrying objects a vehicle step reads and writes.
W == [veh |-> veh, storA |-> storA, storB |-> storB,
      open_orders |-> open_orders, cons |-> cons]

\* VehicleUnit.__init__ followed by initialize(): patient is still 0.
InitVehicle ==
    [destination |-> None, path |-> NonePath, product_id |-> 0, steps |-> 0,
     payload |-> 0, location |-> 0, velocity |-> 0, requested_quantity |-> 0,
     patient |-> 0, cost |-> 0, dm_payload |-> 0]

\* ConsumerUnit.__init__ followed by initialize().
InitConsumer ==
    [received |-> 0, purchased |-> 0, order_product_cost |-> 0,
     pending_order_daily |-> [i \in 1..PendingOrderLen |-> 0],
     dm_received |-> 0, dm_purchased |-> 0, dm_order_product_cost |-> 0,
     dm_latest_consumptions |-> 0, dm_order_quantity |-> 0]

\* defaultdict(Counter): every entry reads 0 until written.
EmptyOrders == [s \in {FacA, FacB} |-> [p \in Products |-> 0]]

\* Configured initial stock: A holds both SKUs, B has one free unit.
InitStorA == [p \in Products |-> IF p = 1 THEN 2 ELSE 1]
InitStorB == [p \in Products |-> 1]

NoJob == [state |-> "none", q |-> 0, vlt |-> 0, delivered |-> 0, rolled |-> 0,
          failed |-> 0, loaded |-> FALSE, age |-> 0, deliveredAt |-> -1, calls |-> 0]

\* Units are named by kind and id.
UnitV == <<"vehicle", FacA>>
UnitC(c) == <<"consumer", c>>
Units == {UnitV} \cup {UnitC(c) : c \in Consumers}

\* ---------------------------------------------------------------- manufacture
\* No manufacture action (self.action is None).
NoProduction == [set |-> FALSE, production_rate |-> 0]
\* A manufacture action with the given production rate.
Production(rate) == [set |-> TRUE, production_rate |-> rate]

\* SimpleManufactureUnit.step without the floor at 0.
manufacture_step_no_floor(m) ==
    LET m0 == [m EXCEPT !.manufacture_number = 0]
    IN  IF m.action.set /\ m.action.production_rate > 0
        THEN LET production_rate == m.action.production_rate
                 unit_num_upper_bound == m.capacity \div m.sku_num
                 current_product_number == m.current
             IN  [m0 EXCEPT !.manufacture_number =
                     Min(unit_num_upper_bound - current_product_number, production_rate)]
        ELSE m0

\* SimpleManufactureUnit.step on the record m of the unit and what it reads.
manufacture_step(m) ==
    LET m0 == [m EXCEPT !.manufacture_number = 0]
    IN  IF m.action.set /\ m.action.production_rate > 0
        THEN LET production_rate == m.action.production_rate
                 unit_num_upper_bound == m.capacity \div m.sku_num
                 current_product_number == m.current
             IN  [m0 EXCEPT !.manufacture_number =
                     Max(0, Min(unit_num_upper_bound - current_product_number,
                                production_rate))]
        ELSE m0

\* ---------------------------------------------------------------- learner
\* The eval_schedule argument: None, an integer or a list of episode numbers.
NoSchedule == [kind |-> "none", every |-> 0, list |-> << >>]
Every(k) == [kind |-> "int", every |-> k, list |-> << >>]
At(list) == [kind |-> "list", every |-> 0, list |-> list]

\* No LocalLearner has been constructed.
NoLearner == [num_episodes |-> 0, given |-> NoSchedule, eval_schedule |-> << >>,
              eval_point_index |-> 0, ep |-> 0, evaluated |-> {}, status |-> "none"]

\* list.sort(): x inserted into the sorted sequence sorted.
RECURSIVE insert_sorted(_, _)
insert_sorted(sorted, x) ==
    IF sorted = << >> THEN <<x>>
    ELSE IF x <= Head(sorted) THEN <<x>> \o sorted
    ELSE <<Head(sorted)>> \o insert_sorted(Tail(sorted), x)
RECURSIVE sort(_)
sort(list) == IF list = << >> THEN << >> ELSE insert_sorted(sort(Tail(list)), Head(list))

\* The evaluation schedule LocalLearner.__init__ stores.
init_eval_schedule(num_episodes, given) ==
    LET listed == IF given.kind = "none" THEN << >>
                  ELSE IF given.kind = "int"
                       THEN LET num_eval_schedule == num_episodes \div given.every
                            IN  [i \in 1..num_eval_schedule |-> given.every * i]
                       ELSE sort(given.list)
    IN  IF listed = << >> \/ num_episodes # listed[Len(listed)]
        THEN Append(listed, num_episodes)
        ELSE listed

\* LocalLearner.__init__.
new_learner(num_episodes, given) ==
    [num_episodes |-> num_episodes, given |-> given,
     eval_schedule |-> init_eval_schedule(num_episodes, given),
     eval_point_index |-> 0, ep |-> 0, evaluated |-> {}, status |-> "running"]

\* One pass of the loop of LocalLearner.run: episode ep is trained and, when
\* it is the next evaluation point, evaluated; stop is what the early stopper
\* answers after an evaluation.  eval_point_index is 0-based as in the code.
run_episode(l, stop) ==
    LET ep == l.ep + 1
        trained == [l EXCEPT !.ep = ep,
                             !.status = IF ep = l.num_episodes THEN "done" ELSE @]
    IN  IF l.eval_point_index >= Len(l.eval_schedule)
        THEN [l EXCEPT !.ep = ep, !.status = "crashed"]
        ELSE IF ep = l.eval_schedule[l.eval_point_index + 1]
             THEN [trained EXCEPT !.eval_point_index = @ + 1,
                                  !.evaluated = @ \cup {ep},
                                  !.status = IF stop THEN "stopped" ELSE @]
             ELSE trained

\* ---------------------------------------------------------------- product
\* SKU types of a facility's SKUs.
SkuTypes == {"production", "material", "product"}
\* The child names ProductUnit.generate goes through, in its order.
ChildNames == <<"manufacture", "consumer", "seller">>
\* A ProductUnit as world.build_unit_by_type returns it, children = [].
NewProductUnit == [manufacture |-> FALSE, consumer |-> FALSE, seller |-> FALSE,
                   children |-> << >>]

\* The two "continue" tests of generate letting a production SKU keep its
\* consumer.
skip_child_manufacture_only(sku_type, child_name) ==
    sku_type # "production" /\ child_name = "manufacture"

\* The two "continue" tests of generate: the child is not built for this SKU.
skip_child(sku_type, child_name) ==
    \/ sku_type # "production" /\ child_name = "manufacture"
    \/ sku_type = "production" /\ child_name = "consumer"

\* The loop over the child names from the i-th name on.
RECURSIVE build_children(_, _, _, _)
build_children(unit, sku_type, config, i) ==
    IF i > Len(ChildNames) THEN unit
    ELSE LET child_name == ChildNames[i]
         IN  IF child_name \notin config \/ skip_child(sku_type, child_name)
             THEN build_children(unit, sku_type, config, i + 1)
             ELSE build_children(
                     [unit EXCEPT ![child_name] = TRUE,
                                  !.children = Append(@, child_name)],
                     sku_type, config, i + 1)

\* ProductUnit.generate: one ProductUnit per SKU of the facility.
generate(skus, config) ==
    [sku_id \in DOMAIN skus |-> build_children(NewProductUnit, skus[sku_id], config, 1)]

\* generate has not run yet.
NotGenerated == [built |-> FALSE, units |-> << >>]
\* No lifecycle call has been made yet.
NoCall == [op |-> "none", sku_id |-> 0, invoked |-> << >>]

InitUnits ==
    /\ veh = InitVehicle
    /\ storA = InitStorA
    /\ storB = InitStorB
    /\ queue = << >>
    /\ open_orders = [c \in Consumers |-> EmptyOrders]
    /\ cons = [c \in Consumers |-> InitConsumer]
    /\ action = [c \in Consumers |-> NoAction]
    /\ stepped = {}
    /\ phase = "step"
    /\ job = NoJob

\* The product units of retailer B: every SKU is bought, through a consumer.
InitProducts ==
    /\ facility_skus = [p \in Products |-> "material"]
    /\ unit_config = {"consumer"}
    /\ products = [built |-> TRUE, units |-> generate(facility_skus, unit_config)]
    /\ calls = NoCall

\* The manufacture unit of supplier A for SKU 1, before any action.
InitManufacture ==
    mfg = [capacity |-> CapA, sku_num |-> Cardinality(Products), current |-> InitStorA[1],
           action |-> NoProduction, manufacture_number |-> 0]

\* No learner drives the two facilities.
InitLearner == learner = NoLearner

Init == InitUnits /\ InitProducts /\ InitManufacture /\ InitLearner

\* ---------------------------------------------------------------- actions
\* Orders the actions set for the consumers other than c will add to the
\* queue in this tick.
PendingOrders(c) ==
    Cardinality({d \in Consumers \ {c} : UnitC(d) \notin stepped /\ ~ActionIgnored(action[d])})

\* The actions the environment hands out: one per consumer and tick, before
\* the consumer steps, and only orders that keep the ledger entry and the
\* distribution queue within the bounds of the model.
Offered(c, a) ==
    /\ phase = "step"
    /\ UnitC(c) \notin stepped
    /\ ~action[c].set
    /\ ~ActionIgnored(a) =>
          /\ open_orders[c][a.source_id][a.product_id] + a.quantity <= MaxOpen
          /\ Len(queue) + PendingOrders(c) < MaxQueue

\* ConsumerUnit.set_action (the environment hands the unit its action): the
\* action replaces whatever was set, at any point of the tick, and the
\* quantity of an action with a positive product id and quantity is
\* published as order_quantity.
SetAction(c, a) ==
    /\ action' = [action EXCEPT ![c] = a]
    /\ cons' = [cons EXCEPT ![c].dm_order_quantity =
                    IF a.product_id > 0 /\ a.quantity > 0 THEN a.quantity ELSE @]
    /\ UNCHANGED <<veh, storA, storB, queue, open_orders, stepped, phase, job, otherVars>>

\* The environment hands consumer c the action a for this tick.
EnvSetAction(c, a) == Offered(c, a) /\ SetAction(c, a)

\* ConsumerUnit.step.
ConsumerStep(c) ==
    LET a == action[c]
        shifted == update_pending_order(cons[c].pending_order_daily)
    IN
    /\ phase = "step"
    /\ UnitC(c) \notin stepped
    /\ stepped' = stepped \cup {UnitC(c)}
    /\ IF ActionIgnored(a)
       THEN /\ cons' = [cons EXCEPT ![c].pending_order_daily = shifted]
            /\ UNCHANGED <<open_orders, queue>>
       ELSE LET order == [destination |-> FacB, product_id |-> a.product_id,
                          quantity |-> a.quantity, vlt |-> a.vlt]
                cost == place_order_cost(order)
                window == IF order.vlt < Len(shifted)
                          THEN [shifted EXCEPT ![PyIndex(shifted, order.vlt - 1)] = @ + order.quantity]
                          ELSE shifted
            IN  /\ open_orders' = update_open_orders(open_orders, c, a.source_id,
                                                     a.product_id, a.quantity)
                /\ queue' = Append(queue, order)
                /\ cons' = [cons EXCEPT
                              ![c].order_product_cost = cost,
                              ![c].purchased = a.quantity,
                              ![c].dm_latest_consumptions = 1,
                              ![c].pending_order_daily = window,
                              ![c].dm_order_product_cost = IF cost > 0 THEN cost ELSE @]
    /\ UNCHANGED <<veh, storA, storB, action, phase, job, otherVars>>

\* DistributionUnit: hand the oldest order to the vehicle when it is free;
\* path is what world.find_path returns for it.
Schedule(path) ==
    /\ phase = "step"
    /\ UnitV \notin stepped
    /\ queue # << >>
    /\ ~is_enroute(veh)
    /\ LET o == Head(queue)
           r == schedule(veh, o.destination, o.product_id, o.quantity, o.vlt, path)
       IN  /\ veh' = r.veh
           /\ phase' = IF r.raised THEN "crashed" ELSE phase
           /\ job' = IF r.raised THEN NoJob
                     ELSE [NoJob EXCEPT !.state = "active", !.q = o.quantity, !.vlt = o.vlt]
    /\ queue' = Tail(queue)
    /\ UNCHANGED <<storA, storB, open_orders, cons, action, stepped, otherVars>>

\* History of the job across one vehicle step from w to n.
JobAfter(w, n) ==
    LET loading == w.veh.steps > 0 /\ w.veh.location = 0 /\ w.veh.payload = 0
        loads   == loading /\ try_load_ok(w, w.veh.requested_quantity)
        fails   == loading /\ ~loads
        added   == Used(n.storB) - Used(w.storB)
        ends    == is_enroute(w.veh) /\ ~is_enroute(n.veh)
        unloads == w.veh.steps <= 0 /\ w.veh.payload > 0
    IN  IF job.state # "active" THEN job
        ELSE [job EXCEPT
                !.state = IF ends THEN "ended" ELSE @,
                !.delivered = @ + added,
                !.rolled = @ + (IF fails /\ ends THEN w.veh.requested_quantity ELSE 0),
                !.failed = @ + (IF fails THEN 1 ELSE 0),
                !.loaded = @ \/ loads,
                !.age = IF job.loaded THEN @ + 1 ELSE @,
                !.calls = @ + 1,
                !.deliveredAt = IF unloads /\ added > 0 THEN job.age + 1 ELSE @]

\* VehicleUnit.step, called once per tick.
VehicleStep ==
    /\ phase = "step"
    /\ UnitV \notin stepped
    /\ stepped' = stepped \cup {UnitV}
    /\ LET n == vehicle_step(W)
       IN  /\ veh' = n.veh
           /\ storA' = n.storA
           /\ storB' = n.storB
           /\ open_orders' = n.open_orders
           /\ cons' = n.cons
           /\ job' = JobAfter(W, n)
    /\ UNCHANGED <<queue, action, phase, otherVars>>

\* Production at A puts one unit of a SKU into A's storage.  Stock at A is
\* read by nothing but a load attempt, so production is observed only while
\* the vehicle waits for a SKU that A is short of.
Restock(p) ==
    /\ phase = "step"
    /\ UnitV \notin stepped
    /\ veh.steps > 0 /\ veh.payload = 0 /\ veh.product_id = p
    /\ ~TryTakeOk(storA, p, veh.requested_quantity)
    /\ TryAddAmount(storA, CapA, p, 1, FALSE) > 0
    /\ storA' = TryAddProducts(storA, CapA, p, 1, FALSE)
    /\ UNCHANGED <<veh, storB, queue, open_orders, cons, action, stepped, phase, job, otherVars>>

\* A sale at B takes one unit of a SKU out of B's storage.  Free space at B
\* is read by nothing but an unload, so a sale is observed only while an
\* arrived vehicle carries more than B can take.
Sell(p) ==
    /\ phase = "step"
    /\ UnitV \notin stepped
    /\ veh.steps = 0 /\ veh.payload > CapB - Used(storB)
    /\ TryTakeOk(storB, p, 1)
    /\ storB' = TryTakeProducts(storB, p, 1)
    /\ UNCHANGED <<veh, storA, queue, open_orders, cons, action, stepped, phase, job, otherVars>>

\* ConsumerUnit.flush_states on one consumer record.
flush_states(k) ==
    [k EXCEPT !.dm_received = IF k.received > 0 THEN k.received ELSE @,
              !.dm_purchased = IF k.purchased > 0 THEN k.purchased ELSE @]

\* ConsumerUnit.post_step on one consumer record (a is its action).
post_step(k, a) ==
    [k EXCEPT !.dm_latest_consumptions = IF a.set THEN 0 ELSE @,
              !.dm_received = IF k.received > 0 THEN 0 ELSE @,
              !.received = IF k.received > 0 THEN 0 ELSE @,
              !.dm_purchased = IF k.purchased > 0 THEN 0 ELSE @,
              !.purchased = IF k.purchased > 0 THEN 0 ELSE @,
              !.dm_order_product_cost = IF k.order_product_cost > 0 THEN 0 ELSE @]

\* The flush pass of a tick, after every unit has stepped.
FlushStates ==
    /\ phase = "step"
    /\ stepped = Units
    /\ cons' = [c \in Consumers |-> flush_states(cons[c])]
    /\ phase' = "flushed"
    /\ UNCHANGED <<veh, storA, storB, queue, open_orders, action, stepped, job, otherVars>>

\* The post-step pass of a tick: per-tick state and actions are cleared.
PostStep ==
    /\ phase = "flushed"
    /\ cons' = [c \in Consumers |-> post_step(cons[c], action[c])]
    /\ action' = [c \in Consumers |-> NoAction]
    /\ stepped' = {}
    /\ phase' = "step"
    /\ UNCHANGED <<veh, storA, storB, queue, open_orders, job, otherVars>>

\* VehicleUnit.reset.
vehicle_reset(v) == reset_data_model(reset_internal_states(v))

\* What reset() of the base class may do to the published fields of a
\* consumer: reset its data model, or nothing.
UnitBaseResets == {"data_model_reset", "noop"}
unit_base_reset(k, base) ==
    IF base = "data_model_reset"
    THEN [k EXCEPT !.dm_received = 0, !.dm_purchased = 0, !.dm_order_product_cost = 0,
                   !.dm_latest_consumptions = 0, !.dm_order_quantity = 0]
    ELSE k

\* ConsumerUnit.reset after its base-class call, on one consumer record: the
\* window is zeroed (the ledger is cleared in Reset); the counters, the order
\* cost and the action are left as they are.
consumer_reset(k) ==
    [k EXCEPT !.pending_order_daily = [i \in 1..PendingOrderLen |-> 0]]

\* reset() of every unit, between two ticks or after a failed schedule, with
\* the given reset of the base class; the actions stay set.
Reset(base) ==
    /\ \/ phase = "step" /\ stepped = {}
       \/ phase = "crashed"
    /\ veh' = vehicle_reset(veh)
    /\ cons' = [c \in Consumers |-> consumer_reset(unit_base_reset(cons[c], base))]
    /\ open_orders' = [c \in Consumers |-> EmptyOrders]
    /\ storA' = InitStorA
    /\ storB' = InitStorB
    /\ queue' = << >>
    /\ stepped' = {}
    /\ phase' = "step"
    /\ job' = NoJob
    /\ UNCHANGED <<action, otherVars>>

\* Some reset of the units has happened in this step.
SomeReset == \E base \in UnitBaseResets : Reset(base)

Next ==
    \/ \E c \in Controlled : \E a \in ActionChoices(c) : EnvSetAction(c, a)
    \/ \E c \in Consumers : ConsumerStep(c)
    \/ Schedule(FoundRoute)
    \/ Schedule(EmptyRoute)
    \/ Schedule(NonePath)
    \/ VehicleStep
    \/ \E p \in Products : Restock(p)
    \/ \E p \in Products : Sell(p)
    \/ FlushStates
    \/ PostStep
    \/ \E base \in UnitBaseResets : Reset(base)

Spec == Init /\ [][Next]_vars

\* ---------------------------------------------------------------- product units
\* The facility.skus a facility may be configured with (none at all included).
SkuChoices == UNION {[D -> SkuTypes] : D \in SUBSET Products}
\* The child configurations: any subset of the three child names.
ConfigChoices == SUBSET {ChildNames[i] : i \in 1..Len(ChildNames)}

\* A facility before its product units are generated.
ProductInit ==
    /\ InitUnits /\ InitManufacture /\ InitLearner
    /\ facility_skus \in SkuChoices
    /\ unit_config \in ConfigChoices
    /\ products = NotGenerated
    /\ calls = NoCall

\* ProductUnit.generate(facility, config, unit_def).
Generate ==
    /\ ~products.built
    /\ products' = [built |-> TRUE, units |-> generate(facility_skus, unit_config)]
    /\ UNCHANGED <<unitVars, manufactureVars, learnerVars, facility_skus, unit_config, calls>>

\* The same-named call on every child of the unit, in the order of children.
call_children(unit, op) == [i \in 1..Len(unit.children) |-> <<unit.children[i], op>>]
\* The call a ProductUnit method makes on its base class SkuUnit.
call_super(op) == << <<"super", op>> >>

\* ProductUnit.step: what it invokes, in order.
product_step(unit) == call_children(unit, "step")
\* ProductUnit.flush_states.
product_flush_states(unit) == call_children(unit, "flush_states")

\* ProductUnit.post_step calling the children before its base class.
product_post_step_children_first(unit) ==
    call_children(unit, "post_step") \o call_super("post_step")

\* ProductUnit.post_step.
product_post_step(unit) == call_super("post_step") \o call_children(unit, "post_step")
\* ProductUnit.reset.
product_reset(unit) == call_super("reset") \o call_children(unit, "reset")

\* The four lifecycle operations of a ProductUnit.
LifecycleOps == {"step", "flush_states", "post_step", "reset"}
lifecycle(unit, op) ==
    CASE op = "step" -> product_step(unit)
      [] op = "flush_states" -> product_flush_states(unit)
      [] op = "post_step" -> product_post_step(unit)
      [] op = "reset" -> product_reset(unit)

\* One lifecycle call on the ProductUnit of a SKU.
Lifecycle(sku_id, op) ==
    /\ products.built
    /\ sku_id \in DOMAIN products.units
    /\ calls' = [op |-> op, sku_id |-> sku_id,
                 invoked |-> lifecycle(products.units[sku_id], op)]
    /\ UNCHANGED <<unitVars, manufactureVars, learnerVars, facility_skus, unit_config, products>>

ProductNext ==
    \/ Generate
    \/ \E sku_id \in Products : \E op \in LifecycleOps : Lifecycle(sku_id, op)

ProductSpec == ProductInit /\ [][ProductNext]_vars

\* ---------------------------------------------------------------- manufacture unit
\* A manufacture unit of a facility with some capacity, SKU count and stock.
ManufactureInit ==
    /\ InitUnits /\ InitProducts /\ InitLearner
    /\ \E capacity \in 0..MaxCapacity : \E sku_num \in 1..MaxSkuNum :
       \E current \in 0..capacity :
          mfg = [capacity |-> capacity, sku_num |-> sku_num, current |-> current,
                 action |-> NoProduction, manufacture_number |-> 0]

\* set_action on the manufacture unit: the action replaces whatever was set.
ManufactureSetAction(rate) ==
    /\ mfg' = [mfg EXCEPT !.action = Production(rate)]
    /\ UNCHANGED <<unitVars, productVars, learnerVars>>

\* SimpleManufactureUnit.step.
ManufactureStep ==
    /\ mfg' = manufacture_step(mfg)
    /\ UNCHANGED <<unitVars, productVars, learnerVars>>

\* post_step of the unit: the action is cleared for the next tick.
ManufacturePostStep ==
    /\ mfg.action.set
    /\ mfg' = [mfg EXCEPT !.action = NoProduction]
    /\ UNCHANGED <<unitVars, productVars, learnerVars>>

\* The stock of the unit's SKU changes between two ticks (deliveries, sales).
StockChange(current) ==
    /\ current # mfg.current
    /\ mfg' = [mfg EXCEPT !.current = current]
    /\ UNCHANGED <<unitVars, productVars, learnerVars>>

ManufactureNext ==
    \/ \E rate \in -1..MaxRate : ManufactureSetAction(rate)
    \/ ManufactureStep
    \/ ManufacturePostStep
    \/ \E current \in 0..MaxCapacity : current <= mfg.capacity /\ StockChange(current)

ManufactureSpec == ManufactureInit /\ [][ManufactureNext]_vars

\* ---------------------------------------------------------------- local learner
\* The lists of at most MaxScheduleLen episode numbers, numbers beyond the
\* last episode and repeated numbers included.
ScheduleLists == UNION {[1..n -> 1..(MaxEpisodes + 1)] : n \in 0..MaxScheduleLen}
ScheduleChoices ==
    {NoSchedule} \cup {Every(k) : k \in 1..(MaxEpisodes + 1)} \cup {At(list) : list \in ScheduleLists}

\* A learner right after its construction.
LearnerInit ==
    /\ InitUnits /\ InitProducts /\ InitManufacture
    /\ \E num_episodes \in 1..MaxEpisodes : \E given \in ScheduleChoices :
          learner = new_learner(num_episodes, given)

\* One episode of run() after which the loop goes on or ends normally.
Episode ==
    /\ learner.status = "running"
    /\ learner' = run_episode(learner, FALSE)
    /\ UNCHANGED <<unitVars, productVars, manufactureVars>>

\* One episode of run() whose evaluation makes the early stopper stop the run.
EpisodeEarlyStop ==
    /\ learner.status = "running"
    /\ learner' = run_episode(learner, TRUE)
    /\ learner'.status = "stopped"
    /\ UNCHANGED <<unitVars, productVars, manufactureVars>>

LearnerNext ==
    \/ Episode
    \/ EpisodeEarlyStop

LearnerSpec == LearnerInit /\ [][LearnerNext]_vars

\* ================================================================ claims
\* A transition that is one call of VehicleUnit.step / ConsumerUnit.step.
VehicleStepped == UnitV \notin stepped /\ UnitV \in stepped'
ConsumerStepped(c) == UnitC(c) \notin stepped /\ UnitC(c) \in stepped'
\* Quantity a step adds to B's storage.
Added == Used(storB') - Used(storB)
\* The vehicle is in the loading phase and A is short of the requested SKU.
Starved == /\ veh.steps > 0 /\ veh.location = 0 /\ veh.payload = 0
           /\ ~TryTakeOk(storA, veh.product_id, veh.requested_quantity)
\* The vehicle has arrived with a payload: its step will call try_unload.
Arrived == veh.steps = 0 /\ veh.payload > 0
\* The ledger entry the vehicle's job is booked under at the destination.
JobEntry(oo) == oo[veh.product_id][FacA][veh.product_id]

\* C1: once a job scheduled with quantity q > 0 has ended (the vehicle is idle
\* again), q equals the quantity added to the destination storage plus the
\* quantity rolled back on abandonment, for every lead time >= 0.
C1_PayloadConservation ==
    job.state = "ended" => job.q = job.delivered + job.rolled

\* C2: when an arrived vehicle with payload p unloads only d < p units, it
\* keeps destination and product with payload p - d after the step.
C2_PartialDeliveryRetried ==
    [][(VehicleStep /\ Arrived /\ Added < veh.payload) =>
          /\ veh'.destination = veh.destination
          /\ veh'.product_id = veh.product_id
          /\ veh'.payload = veh.payload - Added]_vars

\* C3: a partial unload of d out of p > d units decreases the destination
\* consumer's ledger entry (vehicle's facility, product) by exactly d.
C3_PartialDecrement ==
    [][(VehicleStep /\ Arrived /\ Added > 0 /\ Added < veh.payload) =>
          JobEntry(open_orders') = JobEntry(open_orders) - Added]_vars

\* C4: no open-order ledger entry of any consumer is ever negative.
C4_LedgerNonNegative ==
    \A c \in Consumers : \A s \in {FacA, FacB} : \A p \in Products :
        open_orders[c][s][p] >= 0

\* C5: open-order conservation.  In every step other than a reset, each
\* ledger entry changes by the quantity placed under it, minus the
\* quantity_originally_ordered of a delivery notification for it (the payload
\* the vehicle arrived with), minus the requested quantity of a job abandoned
\* under it; and a notification adds the quantity received to the consumer's
\* received counter.
C5_OpenOrderConservation ==
    [][~SomeReset =>
        \A c \in Consumers :
          /\ \A s \in {FacA, FacB} : \A p \in Products :
               open_orders'[c][s][p] - open_orders[c][s][p] =
                   (IF /\ ConsumerStepped(c) /\ ~ActionIgnored(action[c])
                       /\ s = action[c].source_id /\ p = action[c].product_id
                    THEN action[c].quantity ELSE 0)
                 - (IF /\ VehicleStepped /\ Arrived
                       /\ c = veh.product_id /\ s = FacA /\ p = veh.product_id
                    THEN veh.payload ELSE 0)
                 - (IF /\ VehicleStepped /\ Starved /\ veh.patient <= 0
                       /\ c = veh.product_id /\ s = FacA /\ p = veh.product_id
                    THEN veh.requested_quantity ELSE 0)
          /\ (VehicleStepped /\ Arrived /\ c = veh.product_id) =>
               cons'[c].received = cons[c].received + Added]_vars

\* A partial delivery has been notified: 1 unit received of a payload of 2,
\* and the entry of the order is closed.
C5_Witness ==
    /\ job.state = "ended" /\ job.q = 2 /\ job.delivered = 1
    /\ cons[1].received = 1
    /\ open_orders[1][FacA][1] = 0

\* C6: starved loading.  A job that cannot load keeps its job for the first
\* MaxPatient failed steps, its patience going down by one per failure to 0,
\* with ledger and storages untouched; the failed step after those abandons:
\* the ledger entry decreases by the requested quantity, the storages are
\* untouched and the vehicle is idle.
C6_StarvedLoading ==
    /\ []((job.state = "active" /\ ~job.loaded) =>
             /\ job.failed <= MaxPatient
             /\ veh.patient = MaxPatient - job.failed)
    /\ [][(VehicleStep /\ Starved) =>
             IF job.failed < MaxPatient
             THEN /\ is_enroute(veh')
                  /\ veh'.patient = veh.patient - 1
                  /\ UNCHANGED <<open_orders, storA, storB>>
             ELSE /\ open_orders' = [open_orders EXCEPT
                        ![veh.product_id][FacA][veh.product_id] = @ - veh.requested_quantity]
                  /\ UNCHANGED <<storA, storB>>
                  /\ ~is_enroute(veh')
                  /\ veh'.payload = 0 /\ veh'.steps = 0]_vars

\* A job was abandoned on its (MaxPatient + 1)-th failed load and rolled back.
C6_Witness ==
    /\ job.state = "ended" /\ job.failed = MaxPatient + 1
    /\ job.q > 0 /\ job.rolled = job.q /\ job.delivered = 0

\* C7: a job with lead time L >= 1 that loaded on tick t delivers into the
\* destination storage on tick t + L.
C7_DeliveryTiming ==
    (job.deliveredAt # -1 /\ job.vlt >= 1) => job.deliveredAt = job.vlt

\* C8: reset() restores the units to their state right after initialize()
\* (the remaining patience being the configured patience): the vehicle has no
\* destination or path, and payload, distance-steps, position, requested
\* quantity, velocity and cost all 0; every consumer has an empty ledger, an
\* all-zero pending window and zero received, purchased and order-cost
\* counters.
C8_ResetRestoresUnits ==
    [][SomeReset =>
          /\ veh' = [InitVehicle EXCEPT !.patient = MaxPatient]
          /\ \A c \in Consumers :
                cons'[c] = InitConsumer /\ open_orders'[c] = EmptyOrders]_vars

\* C9: after every VehicleUnit.step the cost is the current payload times the
\* unit transport cost.
C9_CostEveryTick ==
    [][VehicleStep => veh'.cost = veh'.payload * UnitTransportCost]_vars

\* C10: schedule() raises when path-finding returns None or an empty route,
\* and then distance-steps, velocity and patience are not set.
C10_NoRouteRaises ==
    [][((\E path \in {FoundRoute, EmptyRoute, NonePath} : Schedule(path))
         /\ (veh'.path.none \/ veh'.path.pts = << >>)) =>
          /\ phase' = "crashed"
          /\ veh'.steps = veh.steps
          /\ veh'.velocity = veh.velocity
          /\ veh'.patient = veh.patient]_vars

\* An absent or invalid action, as the claims word it.
InvalidAction(a) == ~a.set \/ a.quantity <= 0 \/ a.product_id <= 0 \/ a.source_id = 0

\* C11: a ConsumerUnit.step with no action or an invalid one (quantity <= 0,
\* product id <= 0 or source id = 0) leaves the ledger, the purchased counter
\* and the order cost unchanged, places no order and increments no lead-time
\* bucket: its only effect is the one-slot left shift of the pending window.
C11_InvalidActionFrame ==
    [][\A c \in Consumers :
          (ConsumerStepped(c) /\ InvalidAction(action[c])) =>
             /\ open_orders' = open_orders
             /\ queue' = queue
             /\ cons' = [cons EXCEPT ![c].pending_order_daily =
                            [i \in 1..PendingOrderLen |->
                                IF i < PendingOrderLen THEN @[i + 1] ELSE 0]]]_vars

\* Consumer 1 has stepped with a set action of quantity 0, and its window
\* holds the shifted bucket of an earlier order.
C11_Witness ==
    /\ UnitC(1) \in stepped
    /\ action[1].set /\ action[1].quantity = 0
    /\ cons[1].pending_order_daily = <<1, 0>>
    /\ queue = << >>

\* The Order a consumer's step builds from its action.
OrderOf(a) == [destination |-> FacB, product_id |-> a.product_id,
               quantity |-> a.quantity, vlt |-> a.vlt]

\* C12: one action, one order.  A step of a consumer holding a valid action
\* adds action.quantity to its ledger entry (source_id, product_id) and places
\* exactly one order, with the consumer's facility as destination; no other
\* step (reset aside) raises a ledger entry or lengthens the queue; and
\* post_step clears every action, so a later step places nothing unless a
\* fresh action is set.
C12_OneActionOneOrder ==
    [][/\ \A c \in Consumers :
            (ConsumerStepped(c) /\ ~InvalidAction(action[c])) =>
               /\ open_orders' =
                     [open_orders EXCEPT
                        ![c][action[c].source_id][action[c].product_id] =
                            @ + action[c].quantity]
               /\ queue' = Append(queue, OrderOf(action[c]))
       /\ (/\ ~SomeReset
           /\ \/ Len(queue') > Len(queue)
              \/ \E c \in Consumers : \E s \in {FacA, FacB} : \E p \in Products :
                    open_orders'[c][s][p] > open_orders[c][s][p]) =>
               \E c \in Consumers : ConsumerStepped(c) /\ ~InvalidAction(action[c])
       /\ (phase = "flushed" /\ phase' = "step") =>
               \A c \in Consumers : ~action'[c].set]_vars

\* The tick after an order was placed: the order is on the vehicle, its entry
\* is still open, and consumer 1 has stepped without an action and placed
\* nothing.
C12_Witness ==
    /\ UnitC(1) \in stepped /\ ~action[1].set
    /\ open_orders[1][FacA][1] = 1
    /\ queue = << >>
    /\ job.state = "active" /\ job.loaded

\* C13: no stale per-tick values.  After post_step of any tick every
\* consumer's own received and purchased counters and its published received,
\* purchased, order_product_cost and latest_consumptions fields are 0, and so
\* is every other value the consumer published during the tick (the
\* order_quantity set_action writes): nothing published in tick t is visible
\* in tick t + 1 unless it is produced again.
C13_NoStalePerTickValues ==
    [][(phase = "flushed" /\ phase' = "step") =>
          \A c \in Consumers :
             /\ cons'[c].received = 0
             /\ cons'[c].purchased = 0
             /\ cons'[c].dm_received = 0
             /\ cons'[c].dm_purchased = 0
             /\ cons'[c].dm_order_product_cost = 0
             /\ cons'[c].dm_latest_consumptions = 0
             /\ cons'[c].dm_order_quantity = 0]_vars

\* C14: consumer/manufacture exclusivity.  No generated ProductUnit has both a
\* consumer and a manufacture: a production SKU gets the manufacture when
\* configured and no consumer, any other SKU the consumer when configured and
\* no manufacture; the seller is attached whenever configured; the children
\* list holds exactly the attached units, each once; and there is one
\* ProductUnit per SKU of the facility.
C14_ConsumerManufactureExclusive ==
    products.built =>
       /\ DOMAIN products.units = DOMAIN facility_skus
       /\ \A sku_id \in DOMAIN products.units :
            LET unit == products.units[sku_id]
                production == facility_skus[sku_id] = "production"
                attached == {n \in {"manufacture", "consumer", "seller"} : unit[n]}
            IN  /\ ~(unit.consumer /\ unit.manufacture)
                /\ unit.manufacture <=> (production /\ "manufacture" \in unit_config)
                /\ unit.consumer <=> (~production /\ "consumer" \in unit_config)
                /\ unit.seller <=> ("seller" \in unit_config)
                /\ {unit.children[i] : i \in 1..Len(unit.children)} = attached
                /\ Len(unit.children) = Cardinality(attached)

\* A production SKU configured with all three children has been generated:
\* it has its manufacture and seller and no consumer, next to a SKU of
\* another type with consumer and seller.
C14_Witness ==
    /\ products.built
    /\ unit_config = {"manufacture", "consumer", "seller"}
    /\ DOMAIN facility_skus = {1, 2}
    /\ facility_skus[1] = "production" /\ facility_skus[2] = "material"
    /\ products.units[1].children = <<"manufacture", "seller">>
    /\ products.units[2].children = <<"consumer", "seller">>

\* The same-named call on every present child of the unit the last lifecycle
\* call was made on, in the order manufacture, consumer, seller.
ChildCalls ==
    LET unit == products.units[calls.sku_id]
        present == SelectSeq(ChildNames, LAMBDA n : unit[n])
    IN  [i \in 1..Len(present) |-> <<present[i], calls.op>>]

\* C15 as claimed: lifecycle dispatch.  Each of step, flush_states, post_step
\* and reset on a ProductUnit first runs the unit's own bookkeeping and then
\* invokes the same-named operation exactly once on every present child, in
\* the order manufacture, consumer, seller, and on no other unit.
C15_OwnBookkeepingFirst ==
    calls.op # "none" =>
       calls.invoked = << <<"super", calls.op>> >> \o ChildCalls

\* C15 amended: post_step and reset on a ProductUnit first run the unit's
\* own bookkeeping (the operation of its base class), step and flush_states
\* run none; then each of the four invokes the same-named operation exactly
\* once on every present child, in the order manufacture, consumer, seller,
\* and on no other unit.
C15_LifecycleDispatch ==
    calls.op # "none" =>
       calls.invoked =
          IF calls.op \in {"post_step", "reset"}
          THEN << <<"super", calls.op>> >> \o ChildCalls
          ELSE ChildCalls

\* step has run on the ProductUnit of a production SKU that has a manufacture
\* and a seller: nothing of its own, then manufacture, then seller.
C15_Witness ==
    /\ calls.op = "step"
    /\ products.units[calls.sku_id].manufacture /\ products.units[calls.sku_id].seller
    /\ calls.invoked = << <<"manufacture", "step">>, <<"seller", "step">> >>

\* C16: manufacture cap.  After SimpleManufactureUnit.step the manufacture
\* number is max(0, min(capacity // sku count - current quantity, production
\* rate)) when an action with a positive rate is present and 0 otherwise; so
\* it lies between 0 and the rate, stays within the SKU's capacity share when
\* the current quantity does, and a value of an earlier tick does not survive
\* a step without a positive-rate action.
C16_ManufactureCap ==
    [][ManufactureStep =>
         LET share == mfg.capacity \div mfg.sku_num
             rate == mfg.action.production_rate
             room == share - mfg.current
             n == mfg'.manufacture_number
         IN  IF mfg.action.set /\ rate > 0
             THEN /\ n = (IF room < rate THEN (IF room < 0 THEN 0 ELSE room) ELSE rate)
                  /\ 0 <= n /\ n <= rate
                  /\ mfg.current <= share => mfg.current + n <= share
             ELSE n = 0]_vars

\* A step capped by the capacity share: share 2, 1 unit in stock, rate 3,
\* manufacture number 1.
C16_Witness ==
    /\ mfg.capacity = 4 /\ mfg.sku_num = 2 /\ mfg.current = 1
    /\ mfg.action = Production(3)
    /\ mfg.manufacture_number = 1

\* What the replay claim compares tick by tick: ledgers, pending windows and
\* the vehicle's position, payload, distance-steps and patience.
Observed ==
    [ledgers |-> open_orders,
     windows |-> [c \in Consumers |-> cons[c].pending_order_daily],
     location |-> veh.location, payload |-> veh.payload,
     steps |-> veh.steps, patient |-> veh.patient]
\* The same at the start of the first episode, right after initialize().
ObservedAfterInitialize ==
    [ledgers |-> [c \in Consumers |-> EmptyOrders],
     windows |-> [c \in Consumers |-> InitConsumer.pending_order_daily],
     location |-> InitVehicle.location, payload |-> InitVehicle.payload,
     steps |-> InitVehicle.steps, patient |-> InitVehicle.patient]

\* C18: determinism and replay.  An episode replayed after reset() shows the
\* same ledgers, pending windows, vehicle positions, payloads, distance-steps
\* and patience values at every tick as the first episode after initialize();
\* the two sequences start with what reset() leaves and what initialize()
\* leaves, so these must be equal.
C18_ReplayAfterReset ==
    [][SomeReset => Observed' = ObservedAfterInitialize]_vars

\* C19: the learner always evaluates after the last training episode.  When
\* run() has gone through all num_episodes episodes without the early stopper
\* ending it, _evaluate() was called at the end of episode num_episodes,
\* whatever the schedule (None, an integer, any list); and with an integer
\* schedule k it was called at the multiples of k, at the last episode, and at
\* no other episode.
C19_EvaluatesAfterLastEpisode ==
    learner.status \in {"done", "crashed"} =>
       /\ learner.status = "done"
       /\ learner.num_episodes \in learner.evaluated
       /\ learner.given.kind = "int" =>
             learner.evaluated =
                {e \in 1..learner.num_episodes : e % learner.given.every = 0}
                \cup {learner.num_episodes}

\* C20: the destination consumer is notified only of real deliveries.  When
\* an arrived vehicle tries to unload and the destination storage takes 0
\* units, no consumer's ledger and no consumer's received counter changes in
\* that step.  Stated for a vehicle that travelled a found route.
C20_NotifiedOnlyOfDeliveries ==
    [][(VehicleStepped /\ Arrived /\ veh.path = FoundRoute /\ Added = 0) =>
          /\ open_orders' = open_orders
          /\ \A c \in Consumers : cons'[c].received = cons[c].received]_vars

\* The vehicle is in the loading phase of a job.
Loading == veh.steps > 0 /\ veh.location = 0 /\ veh.payload = 0
\* The source storage holds the requested quantity of the job's product.
InStock == storA[veh.product_id] >= veh.requested_quantity
\* The source storage after the requested quantity was taken out of it.
StockTaken == [storA EXCEPT ![veh.product_id] = @ - veh.requested_quantity]

\* C21 as stated: in every step of the loading phase, a successful attempt
\* makes the payload the requested quantity, takes exactly that amount out of
\* the source storage and does not move the vehicle; a failed attempt leaves
\* payload 0 and the storage unchanged and decreases patience by exactly 1.
C21_LoadingEveryFailureCounts ==
    [][(VehicleStepped /\ Loading) =>
          IF InStock
          THEN /\ veh'.payload = veh.requested_quantity
               /\ storA' = StockTaken
               /\ veh'.location = veh.location /\ veh'.steps = veh.steps
          ELSE /\ veh'.payload = 0
               /\ storA' = storA
               /\ veh'.patient = veh.patient - 1]_vars

\* C21 amended: loading is all-or-nothing and retried.  A successful attempt
\* makes the payload the requested quantity, takes exactly that amount out of
\* the source storage, keeps the job and does not move the vehicle, whatever
\* the patience left; a failed attempt leaves payload 0 and the storage
\* unchanged and decreases patience by exactly 1 while the patience left is
\* above 0, and with no patience left the job is abandoned and the patience is
\* back at the configured value.  In every state the payload is 0 or the
\* requested quantity.
C21_LoadingAllOrNothing ==
    /\ [](veh.payload = 0 \/ veh.payload = veh.requested_quantity)
    /\ [][(VehicleStepped /\ Loading) =>
             IF InStock
             THEN /\ veh'.payload = veh.requested_quantity
                  /\ storA' = StockTaken
                  /\ veh'.location = veh.location /\ veh'.steps = veh.steps
                  /\ is_enroute(veh') /\ veh'.destination = veh.destination
             ELSE /\ veh'.payload = 0
                  /\ storA' = storA
                  /\ IF veh.patient > 0
                     THEN veh'.patient = veh.patient - 1 /\ is_enroute(veh')
                     ELSE veh'.patient = MaxPatient /\ ~is_enroute(veh')]_vars

\* A job has just been loaded on its last chance: every MaxPatient attempts
\* before failed, the stock arrived, and the vehicle stands at position 0 with
\* the requested quantity as payload.
C21_Witness ==
    /\ job.state = "active" /\ job.loaded /\ job.failed = MaxPatient
    /\ veh.payload = job.q /\ veh.payload = veh.requested_quantity
    /\ veh.location = 0 /\ veh.steps = job.vlt
    /\ UnitV \in stepped

\* C22: movement.  In every step of a vehicle with distance-steps > 0 and
\* payload > 0, distance-steps decreases by exactly 1 and the position
\* increases by the velocity and is then clamped to route length - 1; in every
\* state of a vehicle with an armed job, 0 <= position <= len(path) - 1 and
\* 0 <= distance-steps <= lead time; and distance-steps and position do not
\* change in a step with payload 0.
C22_Movement ==
    /\ [](job.state = "active" =>
             /\ 0 <= veh.location /\ veh.location <= Len(veh.path.pts) - 1
             /\ 0 <= veh.steps /\ veh.steps <= job.vlt)
    /\ [][(VehicleStepped /\ veh.steps > 0 /\ veh.payload > 0) =>
             /\ veh'.steps = veh.steps - 1
             /\ veh'.location = Min(veh.location + veh.velocity, Len(veh.path.pts) - 1)]_vars
    /\ [][(VehicleStepped /\ veh.payload = 0) =>
             /\ veh'.steps = veh.steps
             /\ veh'.location = veh.location]_vars

\* C23: pending-order window.  Every ConsumerUnit.step first shifts the
\* window left by one slot (index 0 dropped, the last index 0) and keeps its
\* length W; then a valid order with lead time L, 1 <= L <= W, adds its
\* quantity to the bucket at index L - 1 and to no other, and an order with
\* L = 0 or L > W changes no bucket.
C23_PendingWindow ==
    [][\A c \in Consumers :
          ConsumerStepped(c) =>
             LET old == cons[c].pending_order_daily
                 a == action[c]
                 shifted == [i \in 1..PendingOrderLen |->
                                IF i < PendingOrderLen THEN old[i + 1] ELSE 0]
             IN  /\ Len(cons'[c].pending_order_daily) = PendingOrderLen
                 /\ cons'[c].pending_order_daily =
                       IF ~InvalidAction(a) /\ 1 <= a.vlt /\ a.vlt <= PendingOrderLen
                       THEN [shifted EXCEPT ![a.vlt] = @ + a.quantity]
                       ELSE shifted]_vars

\* The number of VehicleUnit.step calls the current job has been through.
JobSteps == job.calls

\* C24: every job ends.  A job scheduled with quantity q > 0, lead time
\* L >= 1 and patience P goes through a bounded number of steps, whatever the
\* stock of the source and the free capacity of the destination are at each
\* tick: each of its steps is one of at most P + 1 failed load attempts, the
\* one successful load, or one of at most L + 1 steps after the load; a job
\* that loaded is over at most L + 1 steps after the load, a job that never
\* loaded after exactly P + 1 steps; and once the job is over the vehicle is
\* idle (is_enroute() false, payload 0, distance-steps 0).
C24_EveryJobEnds ==
    /\ []((job.state = "active" /\ job.vlt >= 1) =>
             /\ is_enroute(veh)
             /\ JobSteps = job.failed + (IF job.loaded THEN 1 ELSE 0) + job.age
             /\ IF job.loaded THEN job.age <= job.vlt
                ELSE job.failed <= MaxPatient /\ job.age = 0)
    /\ []((job.state = "ended" /\ job.vlt >= 1) =>
             /\ ~is_enroute(veh) /\ veh.payload = 0 /\ veh.steps = 0
             /\ JobSteps = job.failed + (IF job.loaded THEN 1 ELSE 0) + job.age
             /\ JobSteps <= MaxPatient + 1 + job.vlt + 1
             /\ IF job.loaded THEN job.age <= job.vlt + 1
                ELSE JobSteps = MaxPatient + 1)
    /\ [][(VehicleStepped /\ job.state = "active" /\ job.vlt >= 1) =>
             \/ job'.state = "ended"
             \/ job'.state = "active" /\ JobSteps' = JobSteps + 1]_vars

\* A job with lead time 2 whose first load attempts failed is over: it loaded
\* when the stock arrived and ended 3 steps after the load, at a destination
\* that took only part of the payload.
C24_Witness ==
    /\ job.state = "ended" /\ job.vlt = 2 /\ job.loaded
    /\ job.failed > 0 /\ job.age = 3
    /\ job.delivered < job.q
    /\ ~is_enroute(veh)

\* The units of product p in the two storages and on the vehicle.
ProductTotal(p) == storA[p] + storB[p] + (IF veh.product_id = p THEN veh.payload ELSE 0)

\* C25: product is neither created nor destroyed by transport.  Across every
\* schedule call and every VehicleUnit.step, for each product the quantities
\* in the storages plus the payload of the vehicle stay the same: what
\* try_load took from the source is on the vehicle or in the destination
\* storage.  Stated for a vehicle that travels a found route.
C25_ProductConserved ==
    [][(/\ \/ VehicleStepped
           \/ \E path \in {FoundRoute, EmptyRoute, NonePath} : Schedule(path)
        /\ veh.path \in {FoundRoute, NonePath}) =>
          \A p \in Products : ProductTotal(p)' = ProductTotal(p)]_vars

\* C26: a failed schedule() leaves the vehicle unchanged.  When schedule()
\* raises because path-finding finds the destination unreachable, the
\* vehicle's destination, product id, requested quantity, path,
\* distance-steps, velocity and patience are what they were before the call,
\* and the idle vehicle still reports is_enroute() = false.
C26_FailedScheduleNoChange ==
    [][(Schedule(NonePath) /\ phase' = "crashed") =>
          /\ veh'.destination = veh.destination
          /\ veh'.product_id = veh.product_id
          /\ veh'.requested_quantity = veh.requested_quantity
          /\ veh'.path = veh.path
          /\ veh'.steps = veh.steps
          /\ veh'.velocity = veh.velocity
          /\ veh'.patient = veh.patient
          /\ ~is_enroute(veh')]_vars

====
